---------------------------- MODULE Spec2Model ----------------------------
(***************************************************************************)
(* A model of the PIN solver of AndreNijman/MathPinGame.                   *)
(*                                                                         *)
(* Two revisions of the solver are in the repository: src/main.py, whose   *)
(* select_next_guess(candidates) prefers candidates with many distinct     *)
(* digits, and the revision carried in src/test_solver.py (lines 25-261),  *)
(* whose select_next_guess(candidates, universe, optimal) is a minimax     *)
(* search.  The variable impl says which revision a session runs.          *)
(*                                                                         *)
(* A code (a Python str of digits) is a sequence of digits; a candidate    *)
(* list (a Python list of str) is a sequence of codes; a feedback tuple is *)
(* a sequence of three integers.  The alphabet '0123456789' is scaled down *)
(* to the digits 0 .. NumDigits-1.                                         *)
(***************************************************************************)
EXTENDS Integers, Sequences, FiniteSets, TLC

VARIABLES
    impl,        \* "main": solve of main.py; "test_solver": solve of test_solver.py
    optimal,     \* solve's optimal flag (test_solver.py only)
    length,      \* solve's length argument
    honest,      \* TRUE: feedback_func is lambda guess: compute_feedback(secret, guess)
    secret,      \* the secret of an honest oracle
    candidates,  \* solve's local candidates
    guess,       \* solve's local guess
    attempts,    \* solve's local attempts
    pc,          \* "loop", "returned", "raised"; "input", "aborted" with the
                 \* interactive provider; "idle" when no session runs
    result,      \* what solve returned: <<attempts, guess>>
    history,     \* the oracle's calls so far: a sequence of [guess, feedback]
    call,        \* a call of one of the functions: its name and arguments
    ret          \* that call's return value

vars == <<impl, optimal, length, honest, secret, candidates, guess, attempts,
          pc, result, history, call, ret>>

solveVars == <<impl, optimal, length, honest, secret, candidates, guess,
               attempts, pc, result, history>>

\* ------------------------------------------------------------- bounds
\* Size of the alphabet of the model (the program's is 10).
NumDigits == 3
\* Longest pin of a solve session or of a call of one of the functions.
MaxLen == 2
\* Longest candidate list given to a filter_candidates call.
MaxList == 2
\* Number of codes the lists given to filter_candidates calls are made of.
ListCodes == 2
\* Most lines that one call of the interactive provider rejects.
MaxRejected == 2

\* ------------------------------------------------------------- constants
\* test_solver.py:122  threshold = float("inf") if optimal else 2_000_000
Threshold == 2000000
\* test_solver.py:126  sample_size = 100
SampleSize == 100

\* ------------------------------------------------------------- helpers
Min(a, b) == IF a <= b THEN a ELSE b

Max(a, b) == IF a >= b THEN a ELSE b

RECURSIVE Pow(_, _)
Pow(b, e) == IF e <= 0 THEN 1 ELSE b * Pow(b, e - 1)

\* A sequence given by a rule, as an explicit tuple.
Tabulate(s) == SubSeq(s, 1, Len(s))

\* F(v), v evaluated once however often F uses it.
Let(v, F(_)) == CHOOSE r \in {F(x) : x \in {v}} : TRUE

\* The greatest member of a set of integers.
SetMax(S) == CHOOSE m \in S : \A x \in S : x <= m

\* Python's `x in seq`.
InSeq(x, s) == \E i \in 1 .. Len(s) : s[i] = x

\* Python's str `<`: lexicographic comparison of two digit strings.
StrLess(a, b) ==
    \E k \in 1 .. (Min(Len(a), Len(b)) + 1) :
        /\ \A i \in 1 .. (k - 1) : a[i] = b[i]
        /\ IF k <= Min(Len(a), Len(b)) THEN a[k] < b[k]
           ELSE Len(a) < Len(b)

\* sum(...) over a sequence of integers
RECURSIVE SumSeq(_)
SumSeq(s) == IF Len(s) = 0 THEN 0 ELSE s[1] + SumSeq(Tail(s))

\* ------------------------------------------------------------- main.py
\* The k-th code (from 1) of product(digits, repeat=n).
CodeAt(n, k) ==
    Tabulate([i \in 1 .. n |-> ((k - 1) \div Pow(NumDigits, n - i)) % NumDigits])

\* generate_candidates: product(digits, repeat=length) in enumeration order.
generate_candidates(n) ==
    Tabulate([k \in 1 .. Pow(NumDigits, n) |-> CodeAt(n, k)])

\* Counter(s)[d]
Count(s, d) == Cardinality({i \in 1 .. Len(s) : s[i] = d})

\* The keys of Counter(s), in first-occurrence order.
CounterKeys(s) ==
    SelectSeq([i \in 1 .. Len(s) |->
                  IF \E j \in 1 .. (i - 1) : s[j] = s[i] THEN -1 ELSE s[i]],
              LAMBDA d : d >= 0)

\* CorrectPosition with the last position left out of the comparison.
CorrectPositionButLast(sec, gs) ==
    SumSeq([i \in 1 .. (Min(Len(sec), Len(gs)) - 1) |-> IF sec[i] = gs[i] THEN 1 ELSE 0])

\* sum(s == g for s, g in zip(secret, guess))
CorrectPosition(sec, gs) ==
    SumSeq([i \in 1 .. Min(Len(sec), Len(gs)) |-> IF sec[i] = gs[i] THEN 1 ELSE 0])

\* CommonOver as a plain set overlap: a digit of both strings counts once.
CommonOverSet(keys, sec, gs) ==
    SumSeq([k \in 1 .. Len(keys) |->
               IF Count(sec, keys[k]) > 0 /\ Count(gs, keys[k]) > 0 THEN 1 ELSE 0])

\* sum(min(secret_counts[d], guess_counts[d]) for d in keys)
CommonOver(keys, sec, gs) ==
    SumSeq([k \in 1 .. Len(keys) |-> Min(Count(sec, keys[k]), Count(gs, keys[k]))])

\* sum(min(secret_counts[d], guess_counts[d]) for d in secret_counts)
Common(sec, gs) == CommonOver(CounterKeys(sec), sec, gs)

\* lines 37-39: the tuple that is returned, from the two sums
FeedbackTuple(correct_position, common, len_secret) ==
    <<correct_position, common - correct_position, len_secret - common>>

compute_feedback(sec, gs) ==
    FeedbackTuple(CorrectPosition(sec, gs), Common(sec, gs), Len(sec))

\* The codes of every length of the model, in enumeration order.
AllCodes == [n \in 0 .. MaxLen |-> generate_candidates(n)]

\* The place of a code in generate_candidates(Len(c)).
RECURSIVE Rank(_, _)
Rank(c, i) == IF i = 0 THEN 0 ELSE Rank(c, i - 1) * NumDigits + c[i]

\* compute_feedback tabulated once for the equal-length codes of the model, so
\* that the loops over the candidates do not recompute it.
FeedbackTable ==
    [n \in 0 .. MaxLen |->
        Tabulate([i \in 1 .. Len(AllCodes[n]) |->
            Tabulate([j \in 1 .. Len(AllCodes[n]) |->
                compute_feedback(AllCodes[n][i], AllCodes[n][j])])])]

\* compute_feedback(sec, gs) for two codes of one length, read from the table.
Feedback(sec, gs) ==
    FeedbackTable[Len(sec)][Rank(sec, Len(sec)) + 1][Rank(gs, Len(gs)) + 1]

\* filter_candidates that starts at the second candidate.
filter_candidates_skip_first(cands, gs, fb) ==
    SelectSeq(SubSeq(cands, 2, Len(cands)), LAMBDA cand : Feedback(cand, gs) = fb)

\* filter_candidates that compares the first two counts of the tuples only.
filter_candidates_two_counts(cands, gs, fb) ==
    SelectSeq(cands, LAMBDA cand : /\ Feedback(cand, gs)[1] = fb[1]
                                   /\ Feedback(cand, gs)[2] = fb[2])

\* [cand for cand in candidates if compute_feedback(cand, guess) == feedback]
filter_candidates(cands, gs, fb) ==
    SelectSeq(cands, LAMBDA cand : Feedback(cand, gs) = fb)

\* ''.join(str(i % 10) for i in range(length))
initial_guess(n) == Tabulate([i \in 1 .. n |-> (i - 1) % NumDigits])

\* len(set(c))
DistinctDigits(c) == Cardinality({c[i] : i \in 1 .. Len(c)})

\* (len(set(a)), a) < (len(set(b)), b)
KeyLess(a, b) ==
    \/ DistinctDigits(a) < DistinctDigits(b)
    \/ DistinctDigits(a) = DistinctDigits(b) /\ StrLess(a, b)

\* max(): the first element whose key no later element exceeds.
RECURSIVE MaxByKey(_, _, _)
MaxByKey(s, i, best) ==
    IF i > Len(s) THEN best
    ELSE IF KeyLess(best, s[i]) THEN MaxByKey(s, i + 1, s[i])
    ELSE MaxByKey(s, i + 1, best)

\* select_next_guess that takes the maximum over all codes of the length.
select_next_guess_any_code(cands) ==
    MaxByKey(generate_candidates(Len(cands[1])), 2,
             generate_candidates(Len(cands[1]))[1])

\* main.py: max(candidates, key=lambda c: (len(set(c)), c))
select_next_guess(cands) == MaxByKey(cands, 2, cands[1])

\* ------------------------------------------------------------- test_solver.py
\* compute_feedback with fixed-size count arrays:
\* common = sum(min(sc, gc) for sc, gc in zip(secret_counts, guess_counts))
CommonArrays(sec, gs) ==
    SumSeq([d \in 1 .. NumDigits |-> Min(Count(sec, d - 1), Count(gs, d - 1))])

compute_feedback_arrays(sec, gs) ==
    FeedbackTuple(CorrectPosition(sec, gs), CommonArrays(sec, gs), Len(sec))

\* list(candidates)[::step][:sample_size]
CandidatePool(cands) ==
    Tabulate([k \in 1 .. Min(SampleSize,
                            (Len(cands) + Max(1, Len(cands) \div SampleSize) - 1)
                                \div Max(1, Len(cands) \div SampleSize)) |->
                 cands[(k - 1) * Max(1, Len(cands) \div SampleSize) + 1]])

\* the first sample_size codes of the universe that are not candidates
FirstOthers(others) == SubSeq(others, 1, Min(SampleSize, Len(others)))

OtherPool(cands, universe) ==
    FirstOthers(SelectSeq(universe, LAMBDA code : ~InSeq(code, cands)))

\* The guesses that are scored: threshold is infinite when optimal.
Pool(cands, universe, opt) ==
    IF opt \/ Len(cands) * Len(universe) <= Threshold
    THEN universe
    ELSE CandidatePool(cands) \o OtherPool(cands, universe)

\* compute_feedback(secret, guess) for secret in candidates
Feedbacks(cands, gs) ==
    Tabulate([i \in 1 .. Len(cands) |-> Feedback(cands[i], gs)])

\* partitions.values(), partitions being the Counter of the feedbacks
PartitionSizes(fbs) ==
    {Cardinality({i \in 1 .. Len(fbs) : fbs[i] = f}) : f \in {fbs[i] : i \in 1 .. Len(fbs)}}

\* Score as the sum of the squared partition sizes.
ScoreSumSquares(cands, gs) ==
    Let(Feedbacks(cands, gs),
        LAMBDA fbs :
            SumSeq([i \in 1 .. Len(fbs) |->
                       Cardinality({j \in 1 .. Len(fbs) : fbs[j] = fbs[i]})]))

\* score = max(partitions.values())
Score(cands, gs) ==
    Let(Feedbacks(cands, gs), LAMBDA fbs : SetMax(PartitionSizes(fbs)))

\* Better without the preference for candidates.
BetterIgnoringCandidacy(score, gs, is_candidate, best) ==
    \/ score < best.score
    \/ score = best.score /\ StrLess(gs, best.guess)

\* The condition under which the loop replaces the best guess so far.
Better(score, gs, is_candidate, best) ==
    \/ score < best.score
    \/ score = best.score /\ is_candidate /\ ~best.is_candidate
    \/ score = best.score /\ is_candidate = best.is_candidate
                          /\ StrLess(gs, best.guess)

\* One iteration of the loop, for guess gs: the best guess after it.
Consider(gs, cands, best) ==
    Let(Score(cands, gs),
        LAMBDA score :
            IF Better(score, gs, InSeq(gs, cands), best)
            THEN [guess |-> gs, score |-> score, is_candidate |-> InSeq(gs, cands)]
            ELSE best)

\* for guess in pool: ... The iterations lo .. hi of the loop, in order: the
\* first half of them, then the second half from where the first half ends.
RECURSIVE Iterations(_, _, _, _, _)
Iterations(pool, cands, lo, hi, best) ==
    IF lo > hi THEN best
    ELSE IF lo = hi THEN Consider(pool[lo], cands, best)
    ELSE Let(Iterations(pool, cands, lo, (lo + hi) \div 2, best),
             LAMBDA half : Iterations(pool, cands, (lo + hi) \div 2 + 1, hi, half))

\* best_guess = pool[0]; best_score = float("inf"), here a number above every
\* partition size; best_is_candidate = best_guess in candidates; the loop;
\* return best_guess
ScanPool(pool, cands) ==
    Iterations(pool, cands, 1, Len(pool),
        [guess |-> pool[1], score |-> Len(cands) + 1,
         is_candidate |-> InSeq(pool[1], cands)]).guess

\* test_solver.py: select_next_guess(candidates, universe, optimal=...)
select_next_guess_minimax(cands, universe, opt) ==
    IF Len(cands) = 1 THEN cands[1]
    ELSE ScanPool(Pool(cands, universe, opt), cands)

\* ------------------------------------------------------------- solve
NoCode == <<>>

NoResult == <<>>

NoCall == [fn |-> "none"]

NoRet == [done |-> FALSE]

\* The codes of a length, as a set.
Codes(n) == {AllCodes[n][k] : k \in 1 .. Len(AllCodes[n])}

\* What an oracle that is not bound to a secret may answer.
Triples(n) == {<<cp, cw, ci>> : cp \in 0 .. n, cw \in 0 .. n, ci \in 0 .. n}

\* feedback_func(guess)
OracleAnswers ==
    IF honest THEN {Feedback(secret, guess)} ELSE Triples(length)

\* solve, up to the loop: lines 82-84 of main.py, 186-189 of test_solver.py.
Init ==
    /\ length \in 1 .. MaxLen
    /\ \/ impl = "main" /\ optimal = FALSE
       \/ impl = "test_solver" /\ optimal \in BOOLEAN
    /\ \/ honest = TRUE /\ secret \in Codes(length)
       \/ honest = FALSE /\ secret = NoCode
    /\ candidates = generate_candidates(length)
    /\ guess = initial_guess(length)
    /\ attempts = 0
    /\ pc = "loop"
    /\ result = NoResult
    /\ history = <<>>
    /\ call = NoCall
    /\ ret = NoRet

\* NextGuess that keeps the guess of the round before.
NextGuessStale(cands) == guess

\* NextGuess that starts over with the first guess.
NextGuessInitial(cands) == initial_guess(length)

\* guess = select_next_guess(...) as the revision calls it
NextGuess(cands) ==
    IF impl = "main" THEN select_next_guess(cands)
    ELSE select_next_guess_minimax(cands, AllCodes[length], optimal)

\* The start of every round: attempts += 1; cp, cw, ci = feedback_func(guess).
\* The guard on attempts caps the counter one round above the size of the
\* universe.
Query(fb) ==
    /\ pc = "loop"
    /\ attempts <= Pow(NumDigits, length)
    /\ attempts' = attempts + 1
    /\ history' = Append(history, [guess |-> guess, feedback |-> fb])

\* RoundSolved that takes any exact match for the solution.
RoundSolvedOnAnyExact ==
    /\ \E fb \in OracleAnswers :
        /\ Query(fb)
        /\ fb[1] >= 1
        /\ result' = <<attempts', guess>>
        /\ pc' = "returned"
    /\ UNCHANGED <<impl, optimal, length, honest, secret, candidates, guess, call, ret>>

\* RoundSolved that returns the count of the rounds before this one.
RoundSolvedStaleCount ==
    /\ \E fb \in OracleAnswers :
        /\ Query(fb)
        /\ fb[1] = length
        /\ result' = <<attempts, guess>>
        /\ pc' = "returned"
    /\ UNCHANGED <<impl, optimal, length, honest, secret, candidates, guess, call, ret>>

\* A round that ends the session: cp == length, solve returns.
RoundSolved ==
    /\ \E fb \in OracleAnswers :
        /\ Query(fb)
        /\ fb[1] = length
        /\ result' = <<attempts', guess>>
        /\ pc' = "returned"
    /\ UNCHANGED <<impl, optimal, length, honest, secret, candidates, guess, call, ret>>

\* RoundInconsistent that returns the guess instead of raising.
RoundInconsistentReturns ==
    /\ \E fb \in OracleAnswers :
        /\ Query(fb)
        /\ fb[1] # length
        /\ candidates' = filter_candidates(candidates, guess, fb)
        /\ candidates' = <<>>
        /\ result' = <<attempts', guess>>
        /\ pc' = "returned"
    /\ UNCHANGED <<impl, optimal, length, honest, secret, guess, call, ret>>

\* A round whose feedback no candidate matches: solve raises ValueError.
RoundInconsistent ==
    /\ \E fb \in OracleAnswers :
        /\ Query(fb)
        /\ fb[1] # length
        /\ candidates' = filter_candidates(candidates, guess, fb)
        /\ candidates' = <<>>
        /\ pc' = "raised"
    /\ UNCHANGED <<impl, optimal, length, honest, secret, guess, result, call, ret>>

\* RoundContinue that filters the whole universe by the last answer alone.
RoundContinueFromUniverse ==
    /\ \E fb \in OracleAnswers :
        /\ Query(fb)
        /\ fb[1] # length
        /\ candidates' = filter_candidates(AllCodes[length], guess, fb)
        /\ candidates' # <<>>
        /\ guess' = NextGuess(candidates')
    /\ UNCHANGED <<impl, optimal, length, honest, secret, pc, result, call, ret>>

\* RoundContinue that picks any of the narrowed candidates (random.choice).
RoundContinueAnyCandidate ==
    /\ \E fb \in OracleAnswers :
        /\ Query(fb)
        /\ fb[1] # length
        /\ candidates' = filter_candidates(candidates, guess, fb)
        /\ candidates' # <<>>
        /\ guess' \in {candidates'[i] : i \in 1 .. Len(candidates')}
    /\ UNCHANGED <<impl, optimal, length, honest, secret, pc, result, call, ret>>

\* A round that narrows the candidates and picks the next guess.
RoundContinue ==
    /\ \E fb \in OracleAnswers :
        /\ Query(fb)
        /\ fb[1] # length
        /\ candidates' = filter_candidates(candidates, guess, fb)
        /\ candidates' # <<>>
        /\ guess' = NextGuess(candidates')
    /\ UNCHANGED <<impl, optimal, length, honest, secret, pc, result, call, ret>>

Next == RoundSolved \/ RoundInconsistent \/ RoundContinue

Spec == Init /\ [][Next]_vars

\* solve is a sequential loop: a round that can run does run.
FairSpec == Spec /\ WF_vars(Next)

\* solve called with any length, up to the loop. product(digits, repeat=length)
\* raises ValueError when length is negative; with length 0 it yields the one
\* empty code, and the first guess is the empty string. An oracle bound to a
\* secret has the secret's length, which is not negative.
InitAnyLength ==
    /\ length \in -1 .. MaxLen
    /\ \/ impl = "main" /\ optimal = FALSE
       \/ impl = "test_solver" /\ optimal \in BOOLEAN
    /\ \/ length >= 0 /\ honest = TRUE /\ secret \in Codes(length)
       \/ honest = FALSE /\ secret = NoCode
    /\ IF length < 0
       THEN candidates = <<>> /\ guess = NoCode /\ pc = "raised"
       ELSE /\ candidates = generate_candidates(length)
            /\ guess = initial_guess(length)
            /\ pc = "loop"
    /\ attempts = 0
    /\ result = NoResult
    /\ history = <<>>
    /\ call = NoCall
    /\ ret = NoRet

AnyLengthSpec == InitAnyLength /\ [][Next]_vars

\* ------------------------------------------------------------- calls
\* A call of one of the functions, outside a solve session.
Call(fn, sec, gs, cands, fb, universe, opt) ==
    [fn |-> fn, secret |-> sec, guess |-> gs, candidates |-> cands,
     feedback |-> fb, universe |-> universe, optimal |-> opt]

\* The lists of at most MaxList codes, repeats and any order allowed, made of
\* the first ListCodes codes of a length.
Lists(n) ==
    UNION {{Tabulate(f) : f \in [1 .. k -> {AllCodes[n][i] :
                                    i \in 1 .. Min(ListCodes, Len(AllCodes[n]))}]} :
           k \in 0 .. MaxList}

\* The candidate lists a first round of solve can leave, for any first guess.
CandidateLists ==
    [n \in 1 .. MaxLen |->
        {filter_candidates(AllCodes[n], gs, Feedback(sec, gs)) :
            gs \in Codes(n), sec \in Codes(n)}]

ArgsIdle ==
    /\ ret = NoRet
    /\ impl = "main"
    /\ optimal = FALSE
    /\ length = 0
    /\ honest = FALSE
    /\ secret = NoCode
    /\ candidates = <<>>
    /\ guess = NoCode
    /\ attempts = 0
    /\ pc = "idle"
    /\ result = NoResult
    /\ history = <<>>

\* The compute_feedback call on the strings "1123" and "1111", which are
\* longer than the bounds of the model allow.
DocumentedCalls == {<<<<1, 1, 2, 3>>, <<1, 1, 1, 1>>>>}

\* compute_feedback(secret, guess) of either revision, on digit strings of any
\* two lengths.
FeedbackCalls ==
    \/ \E fn \in {"compute_feedback", "compute_feedback_arrays"} :
        \E m \in 0 .. MaxLen, n \in 0 .. MaxLen :
            \E sec \in Codes(m), gs \in Codes(n) :
                call = Call(fn, sec, gs, <<>>, <<>>, <<>>, FALSE)
    \/ \E strings \in DocumentedCalls :
        call = Call("compute_feedback", strings[1], strings[2], <<>>, <<>>, <<>>, FALSE)

\* filter_candidates(candidates, guess, feedback)
FilterCalls ==
    \E n \in 1 .. MaxLen :
        \E gs \in Codes(n), cands \in Lists(n), fb \in Triples(n) :
            call = Call("filter_candidates", NoCode, gs, cands, fb, <<>>, FALSE)

\* select_next_guess(candidates) of main.py
SelectCalls ==
    \E n \in 1 .. MaxLen :
        \E cands \in CandidateLists[n] :
            call = Call("select_next_guess", NoCode, NoCode, cands, <<>>, <<>>, FALSE)

\* select_next_guess(candidates, universe, optimal=...) of test_solver.py
SelectMinimaxCalls ==
    \E n \in 1 .. MaxLen :
        \E cands \in CandidateLists[n], opt \in BOOLEAN :
            call = Call("select_next_guess_minimax", NoCode, NoCode, cands, <<>>,
                        AllCodes[n], opt)

FnInit ==
    /\ FeedbackCalls \/ FilterCalls \/ SelectCalls \/ SelectMinimaxCalls
    /\ ArgsIdle

Returns(v) == ret' = [done |-> TRUE, value |-> v] /\ UNCHANGED <<call, solveVars>>

CallComputeFeedback ==
    /\ call.fn = "compute_feedback" /\ ~ret.done
    /\ Returns(compute_feedback(call.secret, call.guess))

CallComputeFeedbackArrays ==
    /\ call.fn = "compute_feedback_arrays" /\ ~ret.done
    /\ Returns(compute_feedback_arrays(call.secret, call.guess))

CallFilterCandidates ==
    /\ call.fn = "filter_candidates" /\ ~ret.done
    /\ Returns(filter_candidates(call.candidates, call.guess, call.feedback))

CallSelectNextGuess ==
    /\ call.fn = "select_next_guess" /\ ~ret.done
    /\ Returns(select_next_guess(call.candidates))

CallSelectNextGuessMinimax ==
    /\ call.fn = "select_next_guess_minimax" /\ ~ret.done
    /\ Returns(select_next_guess_minimax(call.candidates, call.universe, call.optimal))

FnNext ==
    \/ CallComputeFeedback
    \/ CallComputeFeedbackArrays
    \/ CallFilterCandidates
    \/ CallSelectNextGuess
    \/ CallSelectNextGuessMinimax

FnSpec == FnInit /\ [][FnNext]_vars

\* ------------------------------------------------------------- play
\* An input line after raw.strip().lower().split(): a sequence of tokens, each
\* a string. The tokens of the model: the decimal numerals of the integers
\* -1 .. n + 1 and one token that is no numeral.
Numerals(n) == {ToString(k) : k \in -1 .. (n + 1)}

Tokens(n) == Numerals(n) \cup {"x"}

\* raw in {"q", "quit", "exit"}
QuitLines == {<<"q">>, <<"quit">>, <<"exit">>}

\* The lines a user may type: the quit lines, the empty line, and the lines of
\* one to three tokens; a line of four tokens stands for the longer ones.
InputLines(n) ==
    QuitLines
        \cup {<<>>}
        \cup {<<a>> : a \in Tokens(n)}
        \cup {<<a, b>> : a \in Tokens(n), b \in Tokens(n)}
        \cup {<<a, b, c>> : a \in Tokens(n), b \in Tokens(n), c \in Tokens(n)}
        \cup {<<a, a, a, a>> : a \in Tokens(n)}

\* int(token) succeeds
IsInt(tok, n) == \E k \in -1 .. (n + 1) : ToString(k) = tok

\* int(token)
IntOf(tok, n) == CHOOSE k \in -1 .. (n + 1) : ToString(k) = tok

\* The try block: the counts of a line, or the ValueError of a wrong number of
\* tokens or of a token that is no integer.
ParseParts(parts, n) ==
    IF Len(parts) = 2 /\ \A i \in 1 .. 2 : IsInt(parts[i], n)
    THEN [ok |-> TRUE,
          value |-> <<IntOf(parts[1], n), IntOf(parts[2], n),
                      n - IntOf(parts[1], n) - IntOf(parts[2], n)>>]
    ELSE IF Len(parts) = 3 /\ \A i \in 1 .. 3 : IsInt(parts[i], n)
    THEN [ok |-> TRUE,
          value |-> <<IntOf(parts[1], n), IntOf(parts[2], n), IntOf(parts[3], n)>>]
    ELSE [ok |-> FALSE]

\* SumChecked without the check of the sum.
SumUnchecked(parsed, n) == parsed

\* if cp + cw + ci != length: ... continue
SumChecked(parsed, n) ==
    IF parsed.ok /\ parsed.value[1] + parsed.value[2] + parsed.value[3] # n
    THEN [ok |-> FALSE]
    ELSE parsed

\* One pass of the provider's while loop over a line that is no quit line:
\* the triple to return, or not ok when the loop reads another line.
ReadLine(line, n) == SumChecked(ParseParts(line, n), n)

\* The lines of each length of pin that the provider returns a triple for, each
\* with that triple, and the lines after which it reads again.
AcceptedLines ==
    Tabulate([n \in 1 .. MaxLen |->
        {<<line, ReadLine(line, n).value>> :
            line \in {l \in InputLines(n) \ QuitLines : ReadLine(l, n).ok}}])

RejectedLines ==
    Tabulate([n \in 1 .. MaxLen |->
        {line : line \in {l \in InputLines(n) \ QuitLines : ~ReadLine(l, n).ok}}])

\* The provider called with a guess: the closure's attempt counter after its
\* increment, and the number of lines this call has read and rejected.
ProviderCall(gs, attempt) ==
    [fn |-> "provider", guess |-> gs, attempt |-> attempt, rejected |-> 0]

\* play: solve with the interactive provider, up to the provider's first
\* input().
PlayInit ==
    /\ length \in 1 .. MaxLen
    /\ \/ impl = "main" /\ optimal = FALSE
       \/ impl = "test_solver" /\ optimal \in BOOLEAN
    /\ honest = FALSE
    /\ secret = NoCode
    /\ candidates = generate_candidates(length)
    /\ guess = initial_guess(length)
    /\ attempts = 1
    /\ pc = "input"
    /\ result = NoResult
    /\ history = <<>>
    /\ call = ProviderCall(guess, 1)
    /\ ret = NoRet

\* The provider returns fb for a line: cp, cw, ci = feedback_func(guess)
Answered(line, fb) ==
    /\ pc = "input"
    /\ ret' = [done |-> TRUE, value |-> fb, line |-> line]
    /\ history' = Append(history, [guess |-> guess, feedback |-> fb])

\* A quit line: SystemExit leaves the provider, solve and play.
Quit(line) ==
    /\ pc = "input"
    /\ line \in QuitLines
    /\ pc' = "aborted"
    /\ UNCHANGED <<impl, optimal, length, honest, secret, candidates, guess,
                   attempts, result, history, call, ret>>

\* A line the provider rejects: it prints and reads again. The guard caps the
\* count of the lines rejected.
Rejected(line) ==
    /\ pc = "input"
    /\ line \in RejectedLines[length]
    /\ call.rejected < MaxRejected
    /\ call' = [call EXCEPT !.rejected = @ + 1]
    /\ UNCHANGED <<impl, optimal, length, honest, secret, candidates, guess,
                   attempts, pc, result, history, ret>>

\* A line the provider returns, with cp == length: solve returns.
Solved(line, fb) ==
    /\ Answered(line, fb)
    /\ fb[1] = length
    /\ result' = <<attempts, guess>>
    /\ pc' = "returned"
    /\ UNCHANGED <<impl, optimal, length, honest, secret, candidates, guess,
                   attempts, call>>

\* A line the provider returns that no candidate matches: solve raises.
Inconsistent(line, fb) ==
    /\ Answered(line, fb)
    /\ fb[1] # length
    /\ candidates' = filter_candidates(candidates, guess, fb)
    /\ candidates' = <<>>
    /\ pc' = "raised"
    /\ UNCHANGED <<impl, optimal, length, honest, secret, guess, attempts,
                   result, call>>

\* A line the provider returns that narrows the candidates: solve picks the
\* next guess and calls the provider again, up to its first input().
Continue(line, fb) ==
    /\ Answered(line, fb)
    /\ attempts <= Pow(NumDigits, length)
    /\ fb[1] # length
    /\ candidates' = filter_candidates(candidates, guess, fb)
    /\ candidates' # <<>>
    /\ guess' = NextGuess(candidates')
    /\ call' = ProviderCall(guess', call.attempt + 1)
    /\ attempts' = attempts + 1
    /\ UNCHANGED <<impl, optimal, length, honest, secret, pc, result>>

ReadQuit == pc = "input" /\ \E line \in QuitLines : Quit(line)

ReadRejected == \E line \in RejectedLines[length] : Rejected(line)

ReadSolved == \E read \in AcceptedLines[length] : Solved(read[1], read[2])

ReadInconsistent == \E read \in AcceptedLines[length] : Inconsistent(read[1], read[2])

ReadContinue == \E read \in AcceptedLines[length] : Continue(read[1], read[2])

\* What the provider and solve do on reading one given line.
Reading(line) ==
    \/ Quit(line)
    \/ Rejected(line)
    \/ \E read \in AcceptedLines[length] :
          /\ read[1] = line
          /\ \/ Solved(line, read[2])
             \/ Inconsistent(line, read[2])
             \/ Continue(line, read[2])

PlayNext == ReadQuit \/ ReadRejected \/ ReadSolved \/ ReadInconsistent \/ ReadContinue

PlaySpec == PlayInit /\ [][PlayNext]_vars

\* ------------------------------------------------------------- claims
\* The codes of a candidate list, as a set.
Members(s) == {s[i] : i \in 1 .. Len(s)}

\* The size of the universe of the running session.
UniverseSize == Pow(NumDigits, length)

\* A code agrees with every (guess, feedback) pair of a history.
Agrees(c, h) == \A i \in 1 .. Len(h) : Feedback(c, h[i].guess) = h[i].feedback

\* Some code of the universe agrees with the history.
Satisfiable(h) == \E c \in Codes(length) : Agrees(c, h)

\* C1: with the oracle guess -> compute_feedback(secret, guess), solve
\* eventually returns, and what it returns is the secret with attempts >= 1.
C1_RoundTrip ==
    <>(honest =>
          /\ pc = "returned"
          /\ result[2] = secret
          /\ result[1] >= 1
          /\ result[1] = attempts)

C1_Witness ==
    /\ honest /\ pc = "returned" /\ attempts >= 3
    /\ result = <<attempts, secret>>

\* C2: for two digit strings of one length, compute_feedback returns three
\* non-negative integers that sum to the length.
C2_FeedbackSum ==
    (/\ ret.done
     /\ call.fn \in {"compute_feedback", "compute_feedback_arrays"}
     /\ Len(call.secret) = Len(call.guess))
    => /\ Len(ret.value) = 3
       /\ \A k \in 1 .. 3 : ret.value[k] \in Nat
       /\ ret.value[1] + ret.value[2] + ret.value[3] = Len(call.secret)

C2_Witness ==
    /\ ret.done /\ call.fn = "compute_feedback"
    /\ Len(call.secret) = 2 /\ Len(call.guess) = 2
    /\ ret.value[2] > 0

\* The reference Mastermind score of C3.
RefExact(sec, gs) == Cardinality({i \in 1 .. Len(sec) : sec[i] = gs[i]})

RefCount(c, d) == Cardinality({i \in 1 .. Len(c) : c[i] = d})

RECURSIVE RefCommonBelow(_, _, _)
RefCommonBelow(sec, gs, d) ==
    IF d = 0 THEN 0
    ELSE Min(RefCount(sec, d - 1), RefCount(gs, d - 1)) + RefCommonBelow(sec, gs, d - 1)

RefScore(sec, gs) ==
    <<RefExact(sec, gs),
      RefCommonBelow(sec, gs, NumDigits) - RefExact(sec, gs),
      Len(sec) - RefCommonBelow(sec, gs, NumDigits)>>

\* C3: for two digit strings of one length, compute_feedback returns the
\* reference Mastermind score (exact, common - exact, length - common), common
\* being the sum over the digits of the smaller of the two counts; for secret
\* 1122 and guess 1111 that is (2, 0, 2).
C3_ReferenceScore ==
    /\ (/\ ret.done
        /\ call.fn \in {"compute_feedback", "compute_feedback_arrays"}
        /\ Len(call.secret) = Len(call.guess))
       => ret.value = RefScore(call.secret, call.guess)
    /\ ret.done /\ call.fn = "compute_feedback"
       => compute_feedback(<<1, 1, 2, 2>>, <<1, 1, 1, 1>>) = <<2, 0, 2>>
    /\ ret.done /\ call.fn = "compute_feedback_arrays"
       => compute_feedback_arrays(<<1, 1, 2, 2>>, <<1, 1, 1, 1>>) = <<2, 0, 2>>

C3_Witness ==
    /\ ret.done /\ call.fn = "compute_feedback"
    /\ call.secret = <<1, 2>> /\ call.guess = <<1, 1>>
    /\ ret.value = <<1, 0, 1>>

\* C4: a round that does not end the session leaves a candidate list whose
\* codes are all codes of the list before the round, and that is no longer.
C4_NeverGrows ==
    [][pc' = "loop" =>
          /\ Members(candidates') \subseteq Members(candidates)
          /\ Len(candidates') <= Len(candidates)]_vars

C4_Witness ==
    /\ pc = "loop" /\ attempts >= 2
    /\ Len(candidates) < UniverseSize - 1

\* C5: while a session with an honest oracle is not solved, the secret is one
\* of the candidates.
C5_SecretStays == (honest /\ pc = "loop") => InSeq(secret, candidates)

C5_Witness ==
    /\ honest /\ pc = "loop" /\ attempts >= 1
    /\ guess # secret /\ Len(candidates) >= 2 /\ InSeq(secret, candidates)

\* C6: whatever the oracle answers, solve makes at most |universe| queries and
\* then returns or raises, every round that does not end the session leaving
\* fewer candidates than it found.
C6_Terminates ==
    /\ [](attempts <= UniverseSize)
    /\ <>(pc \in {"returned", "raised"})
    /\ [][pc' = "loop" => Len(candidates') < Len(candidates)]_vars

C6_Witness ==
    /\ ~honest /\ pc \in {"returned", "raised"} /\ attempts >= 3

\* C7: once the answers, none of them all-exact, are such that no code of the
\* universe agrees with all of them, solve has raised, in the very round whose
\* answer made them so: it has returned nothing and asked nothing since.
C7_InconsistentRaises ==
    /\ (/\ history # <<>>
        /\ \A i \in 1 .. Len(history) : history[i].feedback[1] # length
        /\ ~Satisfiable(history))
       => /\ pc = "raised"
          /\ result = NoResult
          /\ attempts = Len(history)
          /\ Satisfiable(SubSeq(history, 1, Len(history) - 1))
    /\ pc = "raised" => ~Satisfiable(history) /\ candidates = <<>>

C7_Witness ==
    /\ pc = "raised" /\ attempts >= 2
    /\ history[Len(history)].feedback[1] + history[Len(history)].feedback[2]
           + history[Len(history)].feedback[3] = length

\* The places of the candidates that filter_candidates is to keep.
Kept(cands, gs, fb) ==
    {i \in 1 .. Len(cands) : compute_feedback(cands[i], gs) = fb}

\* out is cands at the places kept, in their order.
IsSelection(out, cands, kept) ==
    /\ Len(out) = Cardinality(kept)
    /\ \A k \in 1 .. Len(out) :
         \E i \in kept :
            /\ Cardinality({j \in kept : j <= i}) = k
            /\ out[k] = cands[i]

\* C8: filter_candidates returns the candidates c with
\* compute_feedback(c, guess) == feedback, each once per occurrence and in the
\* order of the input, and nothing else.
C8_FilterExact ==
    (ret.done /\ call.fn = "filter_candidates")
    => IsSelection(ret.value, call.candidates,
                   Kept(call.candidates, call.guess, call.feedback))

C8_Witness ==
    /\ ret.done /\ call.fn = "filter_candidates"
    /\ Len(call.candidates) = 2 /\ call.candidates[1] # call.candidates[2]
    /\ ret.value = <<call.candidates[2]>>

\* The classes into which the feedback against gs splits the candidates.
Classes(cands, gs) ==
    {{c \in Members(cands) : Feedback(c, gs) = f} :
        f \in {Feedback(d, gs) : d \in Members(cands)}}

\* The worst case of a guess: the size of its largest class.
WorstCase(cands, gs) == SetMax({Cardinality(K) : K \in Classes(cands, gs)})

\* The sum of the squared class sizes of a guess; dividing it by |candidates|
\* does not change which guess has the least.
RECURSIVE SumSquares(_)
SumSquares(classes) ==
    IF classes = {} THEN 0
    ELSE LET K == CHOOSE K \in classes : TRUE
         IN  Cardinality(K) * Cardinality(K) + SumSquares(classes \ {K})

ExpectedRemaining(cands, gs) == SumSquares(Classes(cands, gs))

\* a comes before b: smaller worst case, then a candidate before a code that
\* is none, then the smaller string.
MinimaxBefore(a, b, cands) ==
    \/ WorstCase(cands, a) < WorstCase(cands, b)
    \/ /\ WorstCase(cands, a) = WorstCase(cands, b)
       /\ InSeq(a, cands) /\ ~InSeq(b, cands)
    \/ /\ WorstCase(cands, a) = WorstCase(cands, b)
       /\ InSeq(a, cands) = InSeq(b, cands)
       /\ StrLess(a, b)

\* a comes before b: smaller sum of squared class sizes, then the smaller string.
ExpectedBefore(a, b, cands) ==
    \/ ExpectedRemaining(cands, a) < ExpectedRemaining(cands, b)
    \/ /\ ExpectedRemaining(cands, a) = ExpectedRemaining(cands, b)
       /\ StrLess(a, b)

\* A select_next_guess call of test_solver.py with two candidates or more has
\* returned.
SelectReturned(opt) ==
    /\ ret.done /\ call.fn = "select_next_guess_minimax"
    /\ call.optimal = opt
    /\ Len(call.candidates) >= 2

C10_MinimaxOrder ==
    SelectReturned(TRUE)
    => /\ ret.value \in Members(call.universe)
       /\ \A g \in Members(call.universe) \ {ret.value} :
            MinimaxBefore(ret.value, g, call.candidates)

\* A call in which candidacy decides: the candidate returned has the worst
\* case of a code that is no candidate and is the smaller string.
C10_Witness ==
    /\ SelectReturned(TRUE)
    /\ InSeq(ret.value, call.candidates)
    /\ \E g \in Members(call.universe) :
         /\ ~InSeq(g, call.candidates)
         /\ WorstCase(call.candidates, g) = WorstCase(call.candidates, ret.value)
         /\ StrLess(g, ret.value)

\* What a round leaves of a session.
Session == <<candidates, guess, attempts, pc, result>>

\* C11: a session starts from a state that length and optimal fix, and a round
\* has one outcome only for the answer the oracle gave: no other candidates,
\* guess, attempts, end or result can follow the same answer to the same
\* guess. Two sessions of the same length and flag whose oracles answer alike
\* therefore ask the same guesses and end alike.
C11_Deterministic ==
    /\ [](attempts = 0 => /\ guess = initial_guess(length)
                          /\ candidates = generate_candidates(length)
                          /\ pc = "loop")
    /\ [][\A taken \in {<<history', Session'>>} :
            ~ENABLED (/\ history' = taken[1]
                      /\ Next
                      /\ Session' # taken[2])]_vars

C11_Witness ==
    /\ ~honest /\ pc = "loop" /\ attempts >= 1 /\ Len(candidates) >= 2
    /\ guess # initial_guess(length)

\* C12: a compute_feedback call with a secret and a guess of different lengths
\* does not return: no value comes back from it.
C12_UnequalLengthsFail ==
    (/\ call.fn \in {"compute_feedback", "compute_feedback_arrays"}
     /\ Len(call.secret) # Len(call.guess))
    => ~(ret.done /\ "value" \in DOMAIN ret)

\* C13: every triple the interactive provider returns sums to the length and
\* has its three values in 0 .. length.
C13_InteractiveInRange ==
    (call.fn = "provider" /\ ret.done)
    => /\ ret.value[1] + ret.value[2] + ret.value[3] = length
       /\ \A k \in 1 .. 3 : ret.value[k] \in 0 .. length

\* A malformed line, in the words of C14: no quit line, and a number of tokens
\* other than 2 or 3, or a token that is no integer, or three counts that do
\* not sum to the length.
Malformed(line, n) ==
    /\ line \notin QuitLines
    /\ \/ Len(line) \notin {2, 3}
       \/ \E i \in 1 .. Len(line) : line[i] \notin Numerals(n)
       \/ /\ Len(line) = 3
          /\ \A i \in 1 .. 3 : line[i] \in Numerals(n)
          /\ IntOf(line[1], n) + IntOf(line[2], n) + IntOf(line[3], n) # n

MalformedLines ==
    Tabulate([n \in 1 .. MaxLen |->
        {line : line \in {l \in InputLines(n) : Malformed(l, n)}}])

\* C14: while the provider waits for a line, a malformed line is read (below
\* the cap on rejected lines) and reading it can do nothing but leave the
\* provider waiting in the same call, with attempts, candidates, guess, the
\* answers given so far and the result as they were.
C14_MalformedStays ==
    pc = "input"
    => \A line \in MalformedLines[length] :
         /\ call.rejected < MaxRejected => ENABLED Reading(line)
         /\ ~ENABLED (/\ Reading(line)
                      /\ ~(/\ UNCHANGED <<attempts, candidates, guess, history,
                                          result, ret>>
                           /\ pc' = "input"
                           /\ call'.attempt = call.attempt
                           /\ call'.guess = call.guess))

C14_Witness ==
    /\ pc = "input" /\ attempts >= 2
    /\ call.fn = "provider" /\ call.rejected >= 2

\* C15: solve called with a length of 0 or less ends by raising, and returns
\* no (attempts, code) result.
C15_NonPositiveFails ==
    (length <= 0 /\ pc # "loop") => (pc = "raised" /\ result = NoResult)

\* C16: filtering the list that filter_candidates returned, by the same guess
\* and triple, gives that list again, codes and order.
C16_FilterIdempotent ==
    (ret.done /\ call.fn = "filter_candidates")
    => filter_candidates(ret.value, call.guess, call.feedback) = ret.value

C16_Witness ==
    /\ ret.done /\ call.fn = "filter_candidates"
    /\ Len(call.candidates) = 2 /\ Len(ret.value) = 2
    /\ ret.value[1] # ret.value[2]

\* The compute_feedback call of C17 has returned.
DocumentedCallReturned ==
    /\ ret.done /\ call.fn = "compute_feedback"
    /\ call.secret = <<1, 1, 2, 3>> /\ call.guess = <<1, 1, 1, 1>>

\* C17 as the specification has it: for secret 1123 and guess 1111
\* compute_feedback returns exact 1, misplaced 1, absent 2.
C17_Original == DocumentedCallReturned => ret.value = <<1, 1, 2>>

\* C17, amended: for secret 1123 and guess 1111 compute_feedback returns
\* exact 2, misplaced 0, absent 2.
C17_TwoExact == DocumentedCallReturned => ret.value = <<2, 0, 2>>

C17_Witness == DocumentedCallReturned /\ ret.value[1] = 2

\* The guesses submitted to the oracle so far, in order.
Submitted == [i \in 1 .. Len(history) |-> history[i].guess]

\* C18: every round submits the current guess to the oracle, once; attempts
\* counts the submissions, and solve returns that count with the guess
\* submitted last.
C18_OncePerRound ==
    /\ [](attempts = Len(history))
    /\ [](pc = "returned" =>
            result = <<Len(history), history[Len(history)].guess>>)
    /\ [][/\ Len(history') = Len(history) + 1
          /\ SubSeq(history', 1, Len(history)) = history
          /\ history'[Len(history')].guess = guess]_vars

C18_Witness ==
    /\ pc = "returned" /\ Len(history) >= 2
    /\ result[1] = Len(history)
    /\ history[1].guess # result[2]

\* C19: the guesses submitted in a session differ from one another, and the
\* guess about to be submitted differs from all of them.
C19_NoRepeatedGuess ==
    /\ \A i \in 1 .. Len(history) : \A j \in 1 .. Len(history) :
         i # j => Submitted[i] # Submitted[j]
    /\ pc = "loop" => \A i \in 1 .. Len(history) : Submitted[i] # guess

C19_Witness ==
    /\ impl = "test_solver" /\ ~honest /\ Len(history) >= 3
    /\ \A i \in 1 .. Len(history) : \A j \in 1 .. Len(history) :
         i # j => Submitted[i] # Submitted[j]

\* C20: in solve of main.py the guess about to be submitted is one of the
\* candidates, and a code that solve returns agrees with every answer given
\* before the last.
C20_GuessIsCandidate ==
    /\ (impl = "main" /\ pc = "loop") => InSeq(guess, candidates)
    /\ (impl = "main" /\ pc = "returned")
       => Agrees(result[2], SubSeq(history, 1, Len(history) - 1))

C20_Witness ==
    /\ impl = "main" /\ ~honest /\ pc = "returned" /\ Len(history) >= 3
    /\ Agrees(result[2], SubSeq(history, 1, Len(history) - 1))

=============================================================================
